---- MODULE Spec2Model ----
(***************************************************************************)
(* PrivNotes (src/private_notes.py): a password-protected notes database.  *)
(* One behaviour of this module is the life of one PrivNotes object: the   *)
(* constructor call, then any sequence of get / set / remove / dump calls. *)
(* The calls into the `cryptography` package and into pickle are operators  *)
(* that do what the library does with the arguments the code passes.        *)
(***************************************************************************)
EXTENDS Integers, Sequences, FiniteSets, TLC

\* ------------------------------------------------------------------ bounds
NumPasswords == 2
NumSalts == 2
NumNonces == 2
NumCiphertexts == 2
NumTitles == 2
NumNoteTexts == 2

\* ------------------------------------------------------- program constants
\* class attribute MAX_NOTE_LEN
MAX_NOTE_LEN == 2048
\* the block size, in bits, the code hands to padding.PKCS7
PKCS7_BLOCK_BITS == 16384

\* ------------------------------------------------------------------ values
\* Python's None
None == [py |-> "None"]

\* Passwords are str; bytes(password, 'ascii') needs every character in ASCII.
AsciiPasswords == [id : 1..NumPasswords, ascii : {TRUE}]
Passwords == AsciiPasswords \cup {[id |-> 0, ascii |-> FALSE]}

\* 16-byte values of os.urandom(16)
Salts == 1..NumSalts
Nonces == 1..NumNonces

\* title (str) and note (str) as the docstrings of get/set/remove declare them
\* The bytes of one padding block.
BlockBytes == PKCS7_BLOCK_BITS \div 8
\* Short titles, and one title a byte longer than a padding block.
Titles == [type : {"str"}, id : 1..NumTitles, len : {5}]
            \cup [type : {"str"}, id : {1}, len : {BlockBytes + 1}]
NoteLens == {1, MAX_NOTE_LEN, MAX_NOTE_LEN + 1}
Notes == [type : {"str"}, len : NoteLens, text : 1..NumNoteTexts]

\* What a serialized database can hold: dictionary keys and ciphertext bytes
\* written by whoever produced the blob.
LoadedTags == [loaded_key : {"a"}]
LoadedCiphertexts == [opaque : 1..NumCiphertexts]
NonceTables == UNION {[D -> Nonces] : D \in SUBSET LoadedTags}
CiphertextTables == UNION {[D -> LoadedCiphertexts] : D \in SUBSET LoadedTags}

\* {}: the empty dictionary
EmptyTable == [k \in {} |-> None]

\* ser_data = [self.salt, self.nonces, self.kvs]
Contents == [salt : Salts, nonces : NonceTables, kvs : CiphertextTables]

\* A hex string handed to the constructor as data. "canonical" is the text
\* pickle.dumps(...).hex() produces; "reencoded" is another text of the same
\* pickled object (upper-case hex digits, another pickle protocol byte, bytes
\* after the STOP opcode); "truncated" is a text pickle cannot load.
Encodings == {"canonical", "reencoded", "truncated"}
Blobs == [enc : Encodings, body : Contents]

\* ----------------------------------------------------------- library calls
\* A key derivation that forgets the password: the key depends on the salt alone.
derive_salt_only(password, salt) == [kdf_password |-> 0, kdf_salt |-> salt]

\* PBKDF2HMAC(SHA256, length=32, salt, iterations=2000000).derive(password)
PBKDF2HMAC_derive(password, salt) == [kdf_password |-> password.id, kdf_salt |-> salt]

\* An HMAC finalized without h.update(msg): the tag of the empty message.
HMAC_no_update(key, msg) == [mac_key |-> key, mac_msg |-> << >>]

\* h = hmac.HMAC(key, SHA256()); h.update(msg); h.finalize().hex()
HMAC_hexdigest(key, msg) == [mac_key |-> key, mac_msg |-> msg]

\* pickle.dumps(obj).hex()
pickle_dumps_hex(obj) == [enc |-> "canonical", body |-> obj]

\* pickle.loads(bytes.fromhex(data)) succeeds
pickle_loadable(data) == data.enc # "truncated"

\* pickle.loads(bytes.fromhex(data))
pickle_loads_hex(data) == data.body

\* padding.PKCS7(block_size): ValueError unless block_size is a multiple of 8
\* in range(0, 2041) (the pad length must fit one byte)
PKCS7_accepts(block_size) == block_size \in 0..(255 * 8) /\ block_size % 8 = 0

\* bytes-like, as padder.update, unpadder.update and AESGCM.encrypt require
IsBytes(data) == data.type = "bytes"

\* PKCS7(...).padder(): a padding context, not yet finalized
NewPadder == [finalized |-> FALSE]

\* the context after padder.finalize()
Finalized(padder) == [padder EXCEPT !.finalized = TRUE]

\* padder.update(data): "ok", or the exception it raises
\* (AlreadyFinalized on a finalized context, TypeError unless bytes-like)
padder_update(padder, data) ==
  IF padder.finalized THEN "AlreadyFinalized"
  ELSE IF ~IsBytes(data) THEN "TypeError: data must be bytes-like"
  ELSE "ok"

\* padder.update(data) + padder.finalize(): data padded to the next multiple
\* of the block (PKCS7 always adds at least one byte)
PKCS7_pad(data) == [padded |-> data, blocks |-> data.len \div BlockBytes + 1]

\* unpadder.update(data) + unpadder.finalize()
PKCS7_unpad(data) == data.padded

\* hmac.HMAC(key, hashes.SHA256()): a new HMAC context object. The class
\* defines neither __eq__ nor __hash__, so as a dictionary key the object
\* equals only itself: it is a key no dictionary of obj holds yet.
new_HMAC(obj, key) == [hmac_key |-> key, id |-> Cardinality(DOMAIN obj.nonces) + 1]

\* the attributes of an HMAC context object
HMAC_attributes == {"algorithm", "update", "copy", "verify", "finalize"}

\* AESGCM(key).encrypt(nonce, data, None)
AESGCM_encrypt(key, nonce, data) == [gcm_key |-> key, gcm_nonce |-> nonce, gcm_data |-> data]

\* AESGCM(key).decrypt(nonce, ct, None) authenticates
AESGCM_valid(key, nonce, ct) ==
  /\ "gcm_key" \in DOMAIN ct
  /\ ct.gcm_key = key
  /\ ct.gcm_nonce = nonce

\* AESGCM(key).decrypt(nonce, ct, None)
AESGCM_decrypt(key, nonce, ct) == ct.gcm_data

\* --------------------------------------------------------- call outcomes
Raise(exc) == [kind |-> "raise", exc |-> exc]
Return(value) == [kind |-> "return", value |-> value]

ChecksumError == "ValueError: Checksum is invalid, password is incorrect, or data has been tampered with."
NoteTooLong == "ValueError: Maximum note length exceeded"
BlockSizeError == "ValueError: block_size must be in range(0, 2041)."
HexAttributeError == "AttributeError: 'HMAC' object has no attribute 'hex'"

\* The checksums a caller can hand to the constructor: none, or a tag somebody
\* who knows a password computed over a serialized database.
Checksums ==
  {None} \cup {HMAC_hexdigest(PBKDF2HMAC_derive(p, c.salt), pickle_dumps_hex(c)) :
                 p \in AsciiPasswords, c \in Contents}

VARIABLES
  pc,        \* "new": not constructed; "ready": object handed to the caller;
             \* "failed": the constructor raised, there is no object
  self,      \* the object's attributes: salt, nonces, kvs, source_key
  ctor,      \* the constructor call: its arguments and its outcome
  last,      \* the latest method call: its arguments and its outcome
  before,    \* the object's attributes when the latest method call began
  stored,    \* title -> what the latest set of it that returned stored, for
             \* the titles set and not removed since
  removed    \* the titles whose latest returned set/remove is a remove -> True

vars == <<pc, self, ctor, last, before, stored, removed>>

NoObject == [py |-> "no object"]
NoCall == [op |-> "none"]

\* A constructor that derives the key and loads the tables but never compares
\* the checksum.
init_result_unverified(password, data, checksum, urandom) ==
  IF data # None /\ ~pickle_loadable(data)
  THEN [self |-> NoObject, result |-> Raise("UnpicklingError")]
  ELSE IF ~password.ascii
  THEN [self |-> NoObject, result |-> Raise("UnicodeEncodeError")]
  ELSE
    LET loaded == IF data # None
                  THEN pickle_loads_hex(data)
                  ELSE [salt |-> urandom, nonces |-> EmptyTable, kvs |-> EmptyTable]
    IN [self |-> [salt |-> loaded.salt, nonces |-> loaded.nonces, kvs |-> loaded.kvs,
                  source_key |-> PBKDF2HMAC_derive(password, loaded.salt)],
        result |-> Return(None)]

\* __init__(self, password, data, checksum), with urandom the value
\* os.urandom(16) returns if it is called
init_result(password, data, checksum, urandom) ==
  IF data # None /\ ~pickle_loadable(data)
  THEN [self |-> NoObject, result |-> Raise("UnpicklingError")]
  ELSE
    LET loaded == IF data # None
                  THEN pickle_loads_hex(data)
                  ELSE [salt |-> urandom, nonces |-> EmptyTable, kvs |-> EmptyTable]
    IN IF ~password.ascii
       THEN [self |-> NoObject, result |-> Raise("UnicodeEncodeError")]
       ELSE
         LET source_key == PBKDF2HMAC_derive(password, loaded.salt)
             obj == [salt |-> loaded.salt, nonces |-> loaded.nonces,
                     kvs |-> loaded.kvs, source_key |-> source_key]
         IN IF data # None
               /\ checksum # HMAC_hexdigest(source_key,
                     pickle_dumps_hex([salt |-> obj.salt, nonces |-> obj.nonces, kvs |-> obj.kvs]))
            THEN [self |-> NoObject, result |-> Raise(ChecksumError)]
            ELSE [self |-> obj, result |-> Return(None)]

\* hmacd_title as get, set and remove compute it, or None when the call raises
\* before it has one.
title_key(obj, title) ==
  IF ~PKCS7_accepts(PKCS7_BLOCK_BITS) THEN None
  ELSE IF padder_update(NewPadder, title) # "ok" THEN None
  ELSE new_HMAC(obj, PKCS7_pad(title))

\* set(title, note) on obj gets as far as line 123 and calls os.urandom(16)
set_calls_urandom(obj, title, note) ==
  /\ note.len <= MAX_NOTE_LEN
  /\ title_key(obj, title) # None
  /\ padder_update(Finalized(NewPadder), note) = "ok"
  /\ title_key(obj, title) \notin DOMAIN obj.nonces

\* A dump that draws a new salt for the object as it serializes it.
dump_result_resalt(obj) ==
  [self |-> [obj EXCEPT !.salt = (obj.salt % NumSalts) + 1],
   result |-> Raise(HexAttributeError)]

\* dump(self)
dump_result(obj) ==
  LET ser_data == [salt |-> obj.salt, nonces |-> obj.nonces, kvs |-> obj.kvs]
      deser_data == pickle_dumps_hex(ser_data)
  IN IF "hex" \notin HMAC_attributes
     THEN [self |-> obj, result |-> Raise(HexAttributeError)]
     ELSE [self |-> obj, result |-> Return(<<deser_data, new_HMAC(obj, obj.source_key)>>)]

\* A get that takes the entries out of kvs as it looks the title up.
get_result_pop(obj, title) ==
  [self |-> [obj EXCEPT !.kvs = EmptyTable], result |-> Raise(BlockSizeError)]

\* get(self, title)
get_result(obj, title) ==
  IF ~PKCS7_accepts(PKCS7_BLOCK_BITS)
  THEN [self |-> obj, result |-> Raise(BlockSizeError)]
  ELSE
    LET padder == NewPadder
        title_update == padder_update(padder, title)
    IN IF title_update # "ok"
       THEN [self |-> obj, result |-> Raise(title_update)]
       ELSE
         LET hmacd_title == new_HMAC(obj, PKCS7_pad(title))
         IN IF hmacd_title \in DOMAIN obj.nonces
            THEN IF hmacd_title \notin DOMAIN obj.kvs
                 THEN [self |-> obj, result |-> Raise("KeyError")]
                 ELSE IF ~AESGCM_valid(obj.source_key, obj.nonces[hmacd_title], obj.kvs[hmacd_title])
                 THEN [self |-> obj, result |-> Raise("InvalidTag")]
                 ELSE LET decrypted_note == AESGCM_decrypt(obj.source_key,
                                              obj.nonces[hmacd_title], obj.kvs[hmacd_title])
                      IN [self |-> obj, result |-> Return(PKCS7_unpad(decrypted_note))]
            ELSE [self |-> obj, result |-> Return(None)]

\* A set that records a nonce for the title before it validates anything.
set_result_eager(obj, title, note, urandom) ==
  LET hmacd_title == new_HMAC(obj, PKCS7_pad(title))
  IN [self |-> [obj EXCEPT !.nonces =
                  [k \in DOMAIN obj.nonces \cup {hmacd_title} |->
                     IF k = hmacd_title THEN urandom ELSE obj.nonces[k]]],
      result |-> IF note.len > MAX_NOTE_LEN THEN Raise(NoteTooLong)
                 ELSE Raise(BlockSizeError)]

\* A set that stores the entry but encrypts under one fixed nonce instead of
\* a value of os.urandom(16).
set_result_fixed_nonce(obj, title, note, urandom) ==
  IF note.len > MAX_NOTE_LEN
  THEN [self |-> obj, result |-> Raise(NoteTooLong)]
  ELSE
    LET hmacd_title == new_HMAC(obj, PKCS7_pad(title))
        nonce == CHOOSE n \in Nonces : TRUE
    IN [self |-> [obj EXCEPT
                    !.nonces = [k \in DOMAIN obj.nonces \cup {hmacd_title} |->
                                  IF k = hmacd_title THEN nonce ELSE obj.nonces[k]],
                    !.kvs = [k \in DOMAIN obj.kvs \cup {hmacd_title} |->
                               IF k = hmacd_title
                               THEN AESGCM_encrypt(obj.source_key, nonce, PKCS7_pad(note))
                               ELSE obj.kvs[k]]],
        result |-> Return(None)]

\* set(self, title, note), with urandom the value os.urandom(16) returns if
\* it is called
set_result(obj, title, note, urandom) ==
  IF note.len > MAX_NOTE_LEN
  THEN [self |-> obj, result |-> Raise(NoteTooLong)]
  ELSE IF ~PKCS7_accepts(PKCS7_BLOCK_BITS)
  THEN [self |-> obj, result |-> Raise(BlockSizeError)]
  ELSE
    LET padder == NewPadder
        title_update == padder_update(padder, title)
        hmacd_title == new_HMAC(obj, PKCS7_pad(title))
        note_update == padder_update(Finalized(padder), note)
    IN IF title_update # "ok"
       THEN [self |-> obj, result |-> Raise(title_update)]
       ELSE IF note_update # "ok"
       THEN [self |-> obj, result |-> Raise(note_update)]
       ELSE
         LET known == hmacd_title \in DOMAIN obj.nonces
             nonce == IF known THEN obj.nonces[hmacd_title] ELSE urandom
             nonces1 == [k \in DOMAIN obj.nonces \cup {hmacd_title} |->
                           IF k = hmacd_title THEN nonce ELSE obj.nonces[k]]
             kvs1 == [k \in DOMAIN obj.kvs \cup {hmacd_title} |->
                        IF k = hmacd_title
                        THEN AESGCM_encrypt(obj.source_key, nonce, PKCS7_pad(note))
                        ELSE obj.kvs[k]]
         IN [self |-> [obj EXCEPT !.nonces = nonces1, !.kvs = kvs1],
             result |-> Return(None)]

\* remove(self, title)
remove_result(obj, title) ==
  IF ~PKCS7_accepts(PKCS7_BLOCK_BITS)
  THEN [self |-> obj, result |-> Raise(BlockSizeError)]
  ELSE
    LET padder == NewPadder
        title_update == padder_update(padder, title)
    IN IF title_update # "ok"
       THEN [self |-> obj, result |-> Raise(title_update)]
       ELSE
         LET hmacd_title == new_HMAC(obj, PKCS7_pad(title))
         IN IF hmacd_title \in DOMAIN obj.nonces
            THEN IF hmacd_title \notin DOMAIN obj.kvs
                 THEN [self |-> obj, result |-> Raise("KeyError")]
                 ELSE [self |-> [obj EXCEPT !.kvs =
                                   [k \in DOMAIN obj.kvs \ {hmacd_title} |-> obj.kvs[k]]],
                       result |-> Return(TRUE)]
            ELSE [self |-> obj, result |-> Return(FALSE)]

Init ==
  /\ pc = "new"
  /\ self = NoObject
  /\ ctor = NoCall
  /\ last = NoCall
  /\ before = NoObject
  /\ stored = EmptyTable
  /\ removed = {}

\* PrivNotes(password, data, checksum)
Construct(password, data, checksum, urandom) ==
  /\ LET r == init_result(password, data, checksum, urandom)
     IN /\ self' = r.self
        /\ pc' = IF r.result.kind = "return" THEN "ready" ELSE "failed"
        /\ ctor' = [op |-> "init", password |-> password, data |-> data,
                    checksum |-> checksum, result |-> r.result]
  /\ UNCHANGED <<last, before, stored, removed>>

\* The note of the call just before, when that call was set(title, note) with
\* a note of allowed length; None otherwise.
PrevSetNote(title) ==
  IF last.op = "set" /\ last.title = title /\ last.note.len <= MAX_NOTE_LEN
  THEN last.note
  ELSE None

\* What the object holds for title as a call begins: the entry the latest
\* returned set of it wrote, or None.
Had(title) == IF title \in DOMAIN stored THEN stored[title] ELSE None

Dump ==
  /\ pc = "ready"
  /\ LET r == dump_result(self)
     IN /\ self' = r.self
        /\ last' = [op |-> "dump", result |-> r.result]
  /\ before' = self
  /\ UNCHANGED <<pc, ctor, stored, removed>>

Get(title) ==
  /\ pc = "ready"
  /\ LET r == get_result(self, title)
     IN /\ self' = r.self
        /\ last' = [op |-> "get", title |-> title, result |-> r.result,
                    key |-> title_key(self, title),
                    after_set |-> PrevSetNote(title), had |-> Had(title),
                    was_removed |-> title \in removed]
  /\ before' = self
  /\ UNCHANGED <<pc, ctor, stored, removed>>

Set(title, note, urandom) ==
  /\ pc = "ready"
  /\ LET r == set_result(self, title, note, urandom)
         key == new_HMAC(self, PKCS7_pad(title))
     IN /\ self' = r.self
        /\ last' = [op |-> "set", title |-> title, note |-> note, result |-> r.result,
                    key |-> IF note.len > MAX_NOTE_LEN THEN None
                            ELSE title_key(self, title),
                    after_set |-> PrevSetNote(title), had |-> Had(title),
                    was_removed |-> title \in removed]
        /\ stored' = IF r.result.kind = "return"
                     THEN [t \in DOMAIN stored \cup {title} |->
                             IF t = title
                             THEN [note |-> note, key |-> key,
                                   nonce |-> r.self.nonces[key], ct |-> r.self.kvs[key]]
                             ELSE stored[t]]
                     ELSE stored
        /\ removed' = IF r.result.kind = "return" THEN removed \ {title} ELSE removed
  /\ before' = self
  /\ UNCHANGED <<pc, ctor>>

Remove(title) ==
  /\ pc = "ready"
  /\ LET r == remove_result(self, title)
     IN /\ self' = r.self
        /\ last' = [op |-> "remove", title |-> title, result |-> r.result,
                    key |-> title_key(self, title),
                    after_set |-> PrevSetNote(title), had |-> Had(title),
                    was_removed |-> title \in removed]
        /\ stored' = IF r.result = Return(TRUE)
                     THEN [t \in DOMAIN stored \ {title} |-> stored[t]]
                     ELSE stored
        /\ removed' = IF r.result = Return(TRUE) THEN removed \cup {title} ELSE removed
  /\ before' = self
  /\ UNCHANGED <<pc, ctor>>

\* PrivNotes(password) or PrivNotes(password, None, checksum): a new, empty
\* database. The constructor reads checksum only when data is given, so one
\* checksum stands for every checksum a caller may pass here.
NewEmpty ==
  /\ pc = "new"
  /\ \E password \in Passwords, urandom \in Salts,
        checksum \in {None, CHOOSE c \in Checksums : c # None} :
          Construct(password, None, checksum, urandom)

\* PrivNotes(password, data) or PrivNotes(password, data, checksum): load a
\* serialized database. The caller may hand over any blob and any checksum.
Load ==
  /\ pc = "new"
  /\ \E password \in Passwords, data \in Blobs, checksum \in Checksums :
          Construct(password, data, checksum, data.body.salt)

Next ==
  \/ NewEmpty
  \/ Load
  \/ Dump
  \/ \E title \in Titles : Get(title)
  \/ \E title \in Titles, note \in Notes :
       \E urandom \in (IF set_calls_urandom(self, title, note)
                       THEN Nonces
                       ELSE {CHOOSE n \in Nonces : TRUE}) :
         Set(title, note, urandom)
  \/ \E title \in Titles : Remove(title)

Spec == Init /\ [][Next]_vars

\* ---------------------------------------------------------------- claims
\* The serialized database and the checksum dump is specified to return for
\* contents c under password p: what the constructor accepts for (p, c).
DumpOf(p, c) ==
  [blob |-> pickle_dumps_hex(c),
   checksum |-> HMAC_hexdigest(PBKDF2HMAC_derive(p, c.salt), pickle_dumps_hex(c))]

\* C1: a set(title, note) with len(note) <= MAX_NOTE_LEN returns normally, and
\* a get(title) issued directly after it returns exactly note.
C1_SetThenGet ==
  /\ (last.op = "set" /\ last.note.len <= MAX_NOTE_LEN) => last.result = Return(None)
  /\ (last.op = "get" /\ last.after_set # None) => last.result = Return(last.after_set)

\* C2: dump returns a (blob, checksum) pair that the constructor accepts under
\* the same password, giving an object with the same salt, nonces and kvs.
C2_DumpRoundTrip ==
  last.op = "dump" =>
    /\ last.result.kind = "return"
    /\ LET r == init_result(ctor.password, last.result.value[1],
                            last.result.value[2], self.salt)
       IN /\ r.result = Return(None)
          /\ r.self.salt = self.salt
          /\ r.self.nonces = self.nonces
          /\ r.self.kvs = self.kvs

\* The constructor was called with the password p, the checksum of the dump of
\* c under p, and a blob other than that dump's.
TamperedLoad(p, c) ==
  /\ ctor.op = "init"
  /\ ctor.password = p
  /\ ctor.checksum = DumpOf(p, c).checksum
  /\ ctor.data # None
  /\ ctor.data # DumpOf(p, c).blob

WrongPasswordLoad(q, c) ==
  /\ ctor.op = "init"
  /\ ctor.password \in AsciiPasswords
  /\ ctor.password # q
  /\ ctor.data = DumpOf(q, c).blob
  /\ ctor.checksum = DumpOf(q, c).checksum

C5_AbsentTitle ==
  (/\ last.op \in {"get", "remove"}
   /\ ctor.data = None
   /\ last.had = None
   /\ ~last.was_removed)
    => /\ last.result = (IF last.op = "get" THEN Return(None) ELSE Return(FALSE))
       /\ self = before

\* C6: a remove(title) directly after set(title, note) returns True; from then
\* on, until the title is set again, get(title) returns None and remove(title)
\* returns False, and neither raises.
C6_RemovedIsAbsent ==
  /\ (last.op = "remove" /\ last.after_set # None) => last.result = Return(TRUE)
  /\ (last.op = "get" /\ last.was_removed) => last.result = Return(None)
  /\ (last.op = "remove" /\ last.was_removed) => last.result = Return(FALSE)

\* C7: set accepts and stores a note of exactly MAX_NOTE_LEN characters, and
\* refuses every longer note with the note-too-long error.
C7_LengthBoundary ==
  last.op = "set" =>
    /\ last.note.len = MAX_NOTE_LEN =>
         /\ last.result = Return(None)
         /\ last.title \in DOMAIN stored
         /\ stored[last.title].note = last.note
    /\ last.note.len > MAX_NOTE_LEN => last.result = Raise(NoteTooLong)

\* C8: a set(title, note2) directly after set(title, note1) returns, leaves the
\* nonce recorded for title as the first set assigned it, stores a different
\* ciphertext when the notes differ, and get(title) then returns note2.
C8_NonceStability ==
  (last.op = "set" /\ last.after_set # None /\ last.note.len <= MAX_NOTE_LEN) =>
    /\ last.result = Return(None)
    /\ last.had # None
    /\ last.title \in DOMAIN stored
    /\ stored[last.title].nonce = last.had.nonce
    /\ self.nonces[stored[last.title].key] = last.had.nonce
    /\ last.note # last.after_set => stored[last.title].ct # last.had.ct
    /\ get_result(self, last.title).result = Return(last.note)

\* C9: the constructor given a loadable blob and no checksum returns an object
\* with the blob's salt and tables and the derived key, without any error.
C9_NoChecksumOpens ==
  (/\ ctor.op = "init"
   /\ ctor.password \in AsciiPasswords
   /\ ctor.data # None
   /\ pickle_loadable(ctor.data)
   /\ ctor.checksum = None)
    => /\ ctor.result = Return(None)
       /\ pc = "ready"
       /\ self = [salt |-> ctor.data.body.salt, nonces |-> ctor.data.body.nonces,
                  kvs |-> ctor.data.body.kvs,
                  source_key |-> PBKDF2HMAC_derive(ctor.password, ctor.data.body.salt)]

\* C10: a set or remove that ends in an exception leaves salt, nonces and kvs
\* exactly as they were when the call began.
C10_UnchangedOnError ==
  (last.op \in {"set", "remove"} /\ last.result.kind = "raise") =>
    /\ self.salt = before.salt
    /\ self.nonces = before.nonces
    /\ self.kvs = before.kvs

\* C10 witness: a set refused for its note's length, on a loaded database that
\* holds an entry.
C10_Witness ==
  /\ last.op = "set"
  /\ last.result = Raise(NoteTooLong)
  /\ DOMAIN self.nonces # {}
  /\ self = before

\* C11: the checksum dump returns is HMAC-SHA-256(source_key, blob) over the
\* very blob returned with it: the tag line 51 of the constructor recomputes
\* for that blob under the same password.
C11_DumpChecksumIsKeyedTag ==
  last.op = "dump" =>
    /\ last.result.kind = "return"
    /\ last.result.value[1] =
         pickle_dumps_hex([salt |-> self.salt, nonces |-> self.nonces, kvs |-> self.kvs])
    /\ last.result.value[2] = HMAC_hexdigest(self.source_key, last.result.value[1])

\* What the call recorded in last returns or raises when it is made on obj
\* with the title t in place of its own.
SameCallWith(obj, t) ==
  IF last.op = "get" THEN get_result(obj, t).result
  ELSE IF last.op = "remove" THEN remove_result(obj, t).result
  ELSE set_result(obj, t, last.note, CHOOSE n \in Nonces : TRUE).result

\* C12: get, set (given a note of allowed length) and remove refuse a title
\* longer than the padding block, with an error that the same call with a
\* title that fits does not get, and leave the object unchanged; a title the
\* call accepts (it computes a key for it) is padded to exactly one block.
C12_LongTitleRejected ==
  (/\ last.op \in {"get", "set", "remove"}
   /\ last.op = "set" => last.note.len <= MAX_NOTE_LEN)
    => /\ last.title.len > BlockBytes =>
            /\ last.result.kind = "raise"
            /\ self = before
            /\ \A t \in Titles :
                 t.len <= BlockBytes => SameCallWith(before, t) # last.result
       /\ last.key # None => PKCS7_pad(last.title).blocks = 1

\* C13: a set(title, note) directly after the same set(title, note) returns,
\* leaves salt, nonces and kvs as the first call left them, and the object
\* holds exactly one entry for the title in each table.
C13_SetIdempotent ==
  (last.op = "set" /\ last.after_set = last.note) =>
    /\ last.result = Return(None)
    /\ self = before
    /\ last.had # None
    /\ last.title \in DOMAIN stored
    /\ stored[last.title].key \in DOMAIN self.nonces
    /\ stored[last.title].key \in DOMAIN self.kvs
    /\ stored[last.title] = last.had

\* C14: in every state of an object constructed empty, whatever calls were
\* made on it and however they ended, nonces and kvs have the same keys.
C14_TablesCoPopulated ==
  (pc = "ready" /\ ctor.data = None) => DOMAIN self.nonces = DOMAIN self.kvs

\* C14 witness: an object constructed empty, after a remove that raised.
C14_Witness ==
  /\ pc = "ready"
  /\ ctor.data = None
  /\ last.op = "remove"
  /\ last.result.kind = "raise"
  /\ DOMAIN self.nonces = DOMAIN self.kvs

\* No two keys of the nonce table t are bound to the same nonce.
NoncesInjective(t) ==
  \A k1 \in DOMAIN t, k2 \in DOMAIN t : k1 # k2 => t[k1] # t[k2]

C16_TagDeterministic ==
  /\ (last.op \in {"get", "remove"} /\ last.after_set # None) =>
       /\ last.key # None
       /\ last.had # None
       /\ last.key = last.had.key
  /\ \A t1 \in DOMAIN stored, t2 \in DOMAIN stored :
       t1 # t2 => stored[t1].key # stored[t2].key

\* C17: the key an object computes for a title depends on its source_key: an
\* object with another source key computes a different key for the same title.
C17_TagKeyedBySourceKey ==
  pc = "ready" =>
    \A t \in Titles, p \in AsciiPasswords :
      LET other == [self EXCEPT !.source_key = PBKDF2HMAC_derive(p, self.salt)]
      IN other.source_key # self.source_key =>
           /\ title_key(self, t) # None
           /\ new_HMAC(self, PKCS7_pad(t)) # new_HMAC(other, PKCS7_pad(t))

\* C18: when the constructor is given a blob and a checksum, a checksum that
\* is not the tag of the blob's contents under the password's key ends
\* construction in the checksum error: there is no object and no method has
\* run; a method has run only on an object whose checksum compared equal.
C18_VerifyBeforeUse ==
  (ctor.op = "init" /\ ctor.data # None /\ ctor.checksum # None) =>
    /\ (/\ pickle_loadable(ctor.data)
        /\ ctor.password.ascii
        /\ ctor.checksum # HMAC_hexdigest(
                              PBKDF2HMAC_derive(ctor.password, ctor.data.body.salt),
                              pickle_dumps_hex(pickle_loads_hex(ctor.data))))
         => /\ ctor.result = Raise(ChecksumError)
            /\ pc = "failed"
            /\ self = NoObject
            /\ last = NoCall
    /\ last # NoCall =>
         /\ pc = "ready"
         /\ ctor.result = Return(None)
         /\ ctor.checksum = HMAC_hexdigest(self.source_key,
              pickle_dumps_hex([salt |-> self.salt, nonces |-> before.nonces,
                                kvs |-> before.kvs]))

\* C18 witness: a get on an object loaded from a blob with its checksum.
C18_Witness ==
  /\ pc = "ready"
  /\ ctor.data # None
  /\ ctor.checksum # None
  /\ last.op = "get"

\* C19: no get, set, remove or dump changes the object's salt or source_key,
\* and an object loaded from a blob has the salt recorded in that blob.
C19_SaltImmutable ==
  /\ [][pc = "ready" => (self'.salt = self.salt /\ self'.source_key = self.source_key)]_vars
  /\ [](pc = "ready" =>
          /\ ctor.data # None => self.salt = ctor.data.body.salt
          /\ self.source_key = PBKDF2HMAC_derive(ctor.password, self.salt))

\* C19 witness: an object loaded from a blob, after a dump and with the blob's
\* salt.
C19_Witness ==
  /\ pc = "ready"
  /\ ctor.data # None
  /\ last.op = "dump"
  /\ self.salt = ctor.data.body.salt
  /\ self.salt = before.salt

\* C20: a get or a dump, whether it returns a value, returns None or raises,
\* leaves salt, nonces and kvs exactly as they were when the call began.
C20_GetDumpReadOnly ==
  last.op \in {"get", "dump"} =>
    /\ self.salt = before.salt
    /\ self.nonces = before.nonces
    /\ self.kvs = before.kvs

\* C20 witness: a get on an object that holds a ciphertext entry, which is
\* still there after the call.
C20_Witness ==
  /\ last.op = "get"
  /\ DOMAIN self.kvs # {}
  /\ self.kvs = before.kvs
====
